---- MODULE Spec2Model ----
(***************************************************************************)
(* Model of the pull-request Slack notifier: one run of the action.        *)
(*   main (README.md, "main.ts" listing): formatUserMapping, parseInput,   *)
(*        isValidEvent, run                                                *)
(*   slack.ts: generateUser, isUserReviewer, getRequestedReviewers,        *)
(*        getPullRequestDetail, buildMessageContent, postMessage,          *)
(*        addReaction, postMessageWithWebhook                              *)
(* JavaScript strings that the code transforms (the status label and the   *)
(* header) are sequences of one-character strings; strings that are only   *)
(* copied or concatenated are TLA+ strings.                                *)
(***************************************************************************)
EXTENDS Integers, Sequences, FiniteSets, TLC

VARIABLES
  event,     \* github.context: eventName and payload of the triggering event
  env,       \* the five raw action inputs, as core.getInput returns them
  pc,        \* position of run()
  input,     \* TInput returned by parseInput, NoInput before
  path,      \* delivery path taken by run(): "none", "app" or "webhook"
  content,   \* result of buildMessageContent, NoContent before
  response,  \* {ts, metadata_scopes} returned by postMessage, NoResponse before
  inflight,  \* the outbound call awaited right now, "none" otherwise
  calls,     \* outbound calls issued so far, in order, with their arguments
  failed,    \* the reasons passed to core.setFailed, in order
  trace,     \* the steps of the run, in order
  pullRequestDetail, \* what getPullRequestDetail returned: None for null and before
  locals,    \* buildMessageContent's local variables at the end of its switch
  caught     \* the value caught by run()'s catch, None before

vars == <<event, env, pc, input, path, content, response, inflight, calls, failed,
          trace, pullRequestDetail, locals, caught>>

\* ------------------------------------------------------------------ bounds

\* longest requested_reviewers list of a payload or of a fetched detail
MaxReviewers == 2
\* longest labels list of a payload
MaxLabels == 1

\* ------------------------------------------------------------ JS values

\* JavaScript undefined / null (both falsy, both absent)
Undefined == "<undefined>"

\* JavaScript truthiness of a string-or-undefined value
Truthy(v) == v # Undefined /\ v # ""

\* all sequences over S of length at most n
SeqsUpTo(S, n) == UNION {[1..k -> S] : k \in 0..n}

\* ---------------------------------------------------------- JS strings

\* the code units of the strings the code transforms
CharsOf(s) ==
  CASE s = "opened"            -> <<"o","p","e","n","e","d">>
    [] s = "reopened"          -> <<"r","e","o","p","e","n","e","d">>
    [] s = "closed"            -> <<"c","l","o","s","e","d">>
    [] s = "merged"            -> <<"m","e","r","g","e","d">>
    [] s = "review: "          -> <<"r","e","v","i","e","w",":"," ">>
    [] s = "commented"         -> <<"c","o","m","m","e","n","t","e","d">>
    [] s = "approved"          -> <<"a","p","p","r","o","v","e","d">>
    [] s = "changes_requested" -> <<"c","h","a","n","g","e","s","_","r","e","q","u","e","s","t","e","d">>
    [] s = "updated a comment" -> <<"u","p","d","a","t","e","d"," ","a"," ","c","o","m","m","e","n","t">>
    [] s = "dismissed"         -> <<"d","i","s","m","i","s","s","e","d">>
    [] s = "PULL REQUEST #"    -> <<"P","U","L","L"," ","R","E","Q","U","E","S","T"," ","#">>
    [] s = " - "               -> <<" ","-"," ">>
    [] s = "submitted"         -> <<"s","u","b","m","i","t","t","e","d">>
    [] s = "edited"            -> <<"e","d","i","t","e","d">>
    [] s = "created"           -> <<"c","r","e","a","t","e","d">>
    [] s = "synchronize"       -> <<"s","y","n","c","h","r","o","n","i","z","e">>
    [] s = "undefined"         -> <<"u","n","d","e","f","i","n","e","d">>

Lower == <<"a","b","c","d","e","f","g","h","i","j","k","l","m",
           "n","o","p","q","r","s","t","u","v","w","x","y","z">>
Upper == <<"A","B","C","D","E","F","G","H","I","J","K","L","M",
           "N","O","P","Q","R","S","T","U","V","W","X","Y","Z">>

\* String.prototype.toUpperCase on one code unit
UpperChar(c) ==
  IF \E i \in 1..26 : Lower[i] = c
  THEN Upper[CHOOSE i \in 1..26 : Lower[i] = c]
  ELSE c

\* toUpperCase that leaves the string as it is
toUpperCase_Forgotten(s) == s

\* String.prototype.toUpperCase
toUpperCase(s) == [i \in 1..Len(s) |-> UpperChar(s[i])]

\* replace that replaces nothing
replace_Nothing(s, from, to) == s

\* String.prototype.replace(pattern, replacement) with a one-character string
\* pattern: only the first occurrence is replaced
replace(s, from, to) ==
  IF \E i \in 1..Len(s) : s[i] = from
  THEN LET k == CHOOSE i \in 1..Len(s) :
                  s[i] = from /\ \A j \in 1..(i - 1) : s[j] # from
       IN [i \in 1..Len(s) |-> IF i = k THEN to ELSE s[i]]
  ELSE s

DigitChar == <<"0","1","2","3","4","5","6","7","8","9">>

\* Number -> string conversion of a template literal, for a positive integer
RECURSIVE NumberToString(_)
NumberToString(n) ==
  IF n < 10 THEN <<DigitChar[n + 1]>>
  ELSE NumberToString(n \div 10) \o <<DigitChar[(n % 10) + 1]>>

\* concatenation of the one-character strings of s into one string
RECURSIVE Text(_)
Text(s) == IF s = <<>> THEN "" ELSE s[1] \o Text(Tail(s))

\* Array.prototype.join of an array of strings
RECURSIVE join(_, _)
join(a, sep) ==
  IF a = <<>> THEN ""
  ELSE IF Len(a) = 1 THEN a[1]
  ELSE a[1] \o sep \o join(Tail(a), sep)

\* Array.prototype.filter(Boolean) of an array of strings and nulls
RECURSIVE filterBoolean(_)
filterBoolean(a) ==
  IF a = <<>> THEN <<>>
  ELSE (IF Truthy(a[1]) THEN <<a[1]>> ELSE <<>>) \o filterBoolean(Tail(a))

\* ------------------------------------------------------ the environment

\* GitHub logins of senders and authors
Users == {"alice", "bob", "constructor"}

\* entries of a requested_reviewers list: a user has a login, a team has none
ReviewerPool == {[login |-> "alice"], [slug |-> "core-team"]}
ReviewerLists == SeqsUpTo(ReviewerPool, MaxReviewers)

LabelLists == SeqsUpTo({[name |-> "bug"]}, MaxLabels)

PullNumbers == {7, 42}

RepoURL == "https://github.com/o/r"
HeadRef == "feature-x"
BaseRef == "main"
Title == "Add feature X"
ChangedFiles == 3

PullURL(n) == RepoURL \o "/pull/" \o Text(NumberToString(n))

EventNames == {"pull_request", "pull_request_review", "issue_comment", "push"}
Actions == {Undefined, "opened", "reopened", "closed", "submitted", "edited",
            "dismissed", "created", "synchronize"}
\* review.state of a submitted review (types.ts)
ReviewStates == {"commented", "approved", "changes_requested"}
\* payload.changes of an edited review: absent, without a body entry, with one
ChangeKinds == {"absent", "other", "body"}

\* the events a run can be triggered with; the fields an event kind does not
\* carry, and the details of events no code reads, are held at one value
Event(n, a, m, st, ch, ip, num, snd, au, rv, lb) ==
  [eventName |-> n, action |-> a, merged |-> m, state |-> st, changes |-> ch,
   issuePR |-> ip, number |-> num, sender |-> snd, author |-> au,
   reviewers |-> rv, labels |-> lb]

\* the (event name, action) pairs some branch of isValidEvent names
Supported ==
  ({"pull_request"} \X {"opened", "reopened", "closed"})
  \cup ({"pull_request_review"} \X {"submitted", "edited", "dismissed"})
  \cup ({"issue_comment"} \X {"created", "edited"})

Events ==
  \* pull_request, supported action; merged is read for closed only
  {Event("pull_request", a, FALSE, Undefined, "absent", FALSE, num, snd, au, rv, lb) :
     a \in {"opened", "reopened"}, num \in PullNumbers, snd \in Users,
     au \in Users, rv \in ReviewerLists, lb \in LabelLists}
  \cup
  {Event("pull_request", "closed", m, Undefined, "absent", FALSE, num, snd, au, rv, lb) :
     m \in BOOLEAN, num \in PullNumbers, snd \in Users,
     au \in Users, rv \in ReviewerLists, lb \in LabelLists}
  \cup
  \* pull_request_review: submitted with each state, edited with each kind of
  \* change, dismissed
  {Event("pull_request_review", "submitted", FALSE, st, "absent", FALSE, num, snd, au, rv, lb) :
     st \in ReviewStates, num \in PullNumbers,
     snd \in Users, au \in Users, rv \in ReviewerLists, lb \in LabelLists}
  \cup
  {Event("pull_request_review", "edited", FALSE, Undefined, ch, FALSE, num, snd, au, rv, lb) :
     ch \in ChangeKinds, num \in PullNumbers,
     snd \in Users, au \in Users, rv \in ReviewerLists, lb \in LabelLists}
  \cup
  {Event("pull_request_review", "dismissed", FALSE, Undefined, "absent", FALSE, num, snd, au, rv, lb) :
     num \in PullNumbers,
     snd \in Users, au \in Users, rv \in ReviewerLists, lb \in LabelLists}
  \cup
  \* issue_comment, supported action; the issue carries no author or reviewers
  {Event("issue_comment", a, FALSE, Undefined, "absent", ip, num, snd, Undefined, <<>>, lb) :
     a \in {"created", "edited"}, ip \in BOOLEAN, num \in PullNumbers, snd \in Users,
     lb \in LabelLists}
  \cup
  \* every other pair of an event name and an action (or no action)
  {Event(na[1], na[2], FALSE, Undefined, "absent", ip, 7, "alice", Undefined, <<>>, <<>>) :
     na \in (EventNames \X Actions) \ Supported, ip \in BOOLEAN}

\* raw values of the five inputs
Tokens == {"", "ghs_token"}
BotTokens == {"", "xoxb-token"}
ChannelIds == {"", "C0123"}
WebhookUrls == {"", "https://hooks.slack.com/services/T/B/X"}

\* a JSON text is the sequence of its tokens: punctuation, string literals
\* (with their content) and bare words
Punct(c) == [punct |-> c]
Str(s) == [str |-> s]
Word(w) == [word |-> w]

\* the text of a flat object with the given <<key, value token>> entries, in
\* order
RECURSIVE RenderMembers(_)
RenderMembers(entries) ==
  IF Len(entries) = 0 THEN <<>>
  ELSE <<Str(entries[1][1]), Punct(":"), entries[1][2]>>
       \o (IF Len(entries) = 1 THEN <<>> ELSE <<Punct(",")>>)
       \o RenderMembers(Tail(entries))
Render(entries) == <<Punct("{")>> \o RenderMembers(entries) \o <<Punct("}")>>

\* the user-mapping input: absent (empty), not JSON, and the README's shape
\* with one empty member id
EmptyText == <<>>
NotJSON == <<Word("not"), Word("json")>>
AliceBobText == Render(<<<<"alice", Str("U123")>>, <<"bob", Str("")>>>>)
UserMappings == {EmptyText, NotJSON, AliceBobText}

Envs ==
  [githubToken : Tokens, botToken : BotTokens, channelId : ChannelIds,
   webhookUrl : WebhookUrls, userMapping : UserMappings]

\* --------------------------------------------------- main: the inputs

SyntaxError == [error |-> "SyntaxError"]

\* JSON.parse of null
JSONNull == [json |-> "null"]

\* the value a token stands for as a member value: a string literal its
\* content, null the null
IsValueToken(t) == "str" \in DOMAIN t \/ t = Word("null")
ValueOf(t) == IF "str" \in DOMAIN t THEN t.str ELSE Undefined

\* the members between the braces: the <<key, value>> pairs in order, or no
\* parse
NoParse == [ok |-> FALSE]
RECURSIVE ParseMembers(_)
ParseMembers(t) ==
  IF Len(t) < 3 THEN NoParse
  ELSE IF ~("str" \in DOMAIN t[1] /\ t[2] = Punct(":") /\ IsValueToken(t[3]))
    THEN NoParse
  ELSE IF Len(t) = 3 THEN [ok |-> TRUE, members |-> <<<<t[1].str, ValueOf(t[3])>>>>]
  ELSE IF t[4] # Punct(",") THEN NoParse
  ELSE LET rest == ParseMembers(SubSeq(t, 5, Len(t))) IN
       IF ~rest.ok THEN NoParse
       ELSE [ok |-> TRUE, members |-> <<<<t[1].str, ValueOf(t[3])>>>> \o rest.members]

\* the object of a list of members: a repeated key keeps its last value
ObjectOf(members) ==
  [k \in {members[i][1] : i \in 1..Len(members)} |->
     members[CHOOSE i \in 1..Len(members) :
               /\ members[i][1] = k
               /\ \A j \in (i + 1)..Len(members) : members[j][1] # k][2]]

\* JSON.parse of a user-mapping text: the object, null, or the exception
JSONParse(text) ==
  IF text = <<Word("null")>> THEN JSONNull
  ELSE IF Len(text) < 2 \/ text[1] # Punct("{") \/ text[Len(text)] # Punct("}")
    THEN SyntaxError
  ELSE IF Len(text) = 2 THEN [k \in {} |-> ""]
  ELSE LET parsed == ParseMembers(SubSeq(text, 2, Len(text) - 1)) IN
       IF ~parsed.ok THEN SyntaxError ELSE ObjectOf(parsed.members)

MappingError == "Input \"user-mapping\" must be a json string."
AtLeastOneError ==
  "Need to provide at least one input \"slack-bot-token\" or \"slack-webhook-url\"."
ChannelError ==
  "Input \"slack-channel-id\" is required to run this action. An empty one has been provided."

\* formatUserMapping that keeps the entries with an empty value
formatUserMapping_KeepAll(mapping) ==
  LET data == JSONParse(mapping) IN
  IF data = SyntaxError \/ data = JSONNull
  THEN [threw |-> TRUE, message |-> MappingError]
  ELSE [threw |-> FALSE, value |-> data]

\* formatUserMapping: the entries with a truthy value, or the thrown Error
\* (JSON.parse throws, or Object.keys throws on null, inside the try)
formatUserMapping(mapping) ==
  LET data == JSONParse(mapping) IN
  IF data = SyntaxError \/ data = JSONNull
  THEN [threw |-> TRUE, message |-> MappingError]
  ELSE [threw |-> FALSE,
        value |-> [k \in {k \in DOMAIN data : Truthy(data[k])} |-> data[k]]]

\* parseInput: the TInput, or the Error thrown by formatUserMapping
parseInput(e) ==
  LET um == formatUserMapping(IF Len(e.userMapping) > 0 THEN e.userMapping
                              ELSE Render(<<>>)) IN
  IF um.threw
  THEN um
  ELSE [threw |-> FALSE,
        value |-> [githubToken |-> e.githubToken, botToken |-> e.botToken,
                   channelId |-> e.channelId, webhookUrl |-> e.webhookUrl,
                   userMapping |-> um.value]]

\* --------------------------------------------- main: the event classifier

\* isValidEvent without the check of the body change of an edited review
isValidEvent_NoBodyCheck(ev) ==
  IF ~Truthy(ev.action) THEN FALSE
  ELSE IF ev.eventName = "pull_request"
    THEN ev.action \in {"opened", "reopened", "closed"}
  ELSE IF ev.eventName = "pull_request_review"
    THEN ev.action \in {"submitted", "edited", "dismissed"}
  ELSE IF ev.eventName = "issue_comment"
    THEN IF ev.action \notin {"created", "edited"} THEN FALSE
         ELSE ev.issuePR
  ELSE FALSE

\* a classifier that also accepts the events of other names that carry an
\* action
isValidEvent_AcceptsOthers(ev) ==
  IF ~Truthy(ev.action) THEN FALSE
  ELSE IF ev.eventName = "pull_request"
    THEN ev.action \in {"opened", "reopened", "closed"}
  ELSE IF ev.eventName = "pull_request_review"
    THEN IF ev.action \notin {"submitted", "edited", "dismissed"} THEN FALSE
         ELSE IF ev.action = "edited" /\ ev.changes # "body" THEN FALSE
         ELSE TRUE
  ELSE IF ev.eventName = "issue_comment"
    THEN IF ev.action \notin {"created", "edited"} THEN FALSE
         ELSE ev.issuePR
  ELSE TRUE

isValidEvent(ev) ==
  IF ~Truthy(ev.action) THEN FALSE
  ELSE IF ev.eventName = "pull_request"
    THEN ev.action \in {"opened", "reopened", "closed"}
  ELSE IF ev.eventName = "pull_request_review"
    THEN IF ev.action \notin {"submitted", "edited", "dismissed"} THEN FALSE
         ELSE IF ev.action = "edited" /\ ev.changes # "body" THEN FALSE
         ELSE TRUE
  ELSE IF ev.eventName = "issue_comment"
    THEN IF ev.action \notin {"created", "edited"} THEN FALSE
         ELSE ev.issuePR
  ELSE FALSE

\* ------------------------------------------------------ slack: the users

\* names every object inherits from Object.prototype that can be a GitHub login
ObjectPrototypeKeys ==
  {"constructor", "toString", "valueOf", "hasOwnProperty", "isPrototypeOf",
   "propertyIsEnumerable", "toLocaleString"}

\* what a template literal makes of such an inherited function
InheritedText(k) ==
  IF k = "constructor" THEN "function Object() { [native code] }"
  ELSE "function " \o k \o "() { [native code] }"

\* mapping[githubUser]: the own entry, else the entry inherited from
\* Object.prototype (the mapping is an object literal), else undefined
Lookup(mapping, githubUser) ==
  IF githubUser \in DOMAIN mapping THEN mapping[githubUser]
  ELSE IF githubUser \in ObjectPrototypeKeys THEN InheritedText(githubUser)
  ELSE Undefined

generateUser(githubUser, mapping) ==
  LET slackMemberID == Lookup(mapping, githubUser) IN
  IF Truthy(slackMemberID)
  THEN "<@" \o slackMemberID \o "> (" \o githubUser \o ")"
  ELSE githubUser

isUserReviewer(reviewer) == "login" \in DOMAIN reviewer

\* getRequestedReviewers without the filter of the nulls made for the teams
getRequestedReviewers_NoFilter(requestedReviewers, mapping) ==
  [i \in 1..Len(requestedReviewers) |->
     IF "login" \in DOMAIN requestedReviewers[i]
     THEN requestedReviewers[i].login
     ELSE Undefined]

getRequestedReviewers(requestedReviewers, mapping) ==
  filterBoolean([i \in 1..Len(requestedReviewers) |->
                   IF isUserReviewer(requestedReviewers[i])
                   THEN generateUser(requestedReviewers[i].login, mapping)
                   ELSE Undefined])

generateBranchURL(repositoryURL, name) == repositoryURL \o "/tree/" \o name

\* ------------------------------------------- slack: the message builder

\* an optional value that is not a string: undefined, or the value
None == [some |-> FALSE]
Some(v) == [some |-> TRUE, value |-> v]

\* octokit.rest.pulls.get: the data the builder reads of a pull request
Detail(n, user, reviewers) ==
  [html_url |-> PullURL(n), changed_files |-> ChangedFiles,
   head_ref |-> HeadRef, base_ref |-> BaseRef, user |-> user,
   requested_reviewers |-> reviewers]

\* the details the hosting API can answer with for the pull request of ev: the
\* author may be gone (user null), the reviewer list may be null
Details(ev) ==
  {Detail(ev.number, u, r) :
     u \in Users \cup {Undefined}, r \in {None} \cup {Some(l) : l \in ReviewerLists}}

names(labels) == [i \in 1..Len(labels) |-> labels[i].name]

\* the local variables of buildMessageContent as declared (lines 113-124)
Declared ==
  [eventStatus |-> None, title |-> Undefined, pullRequestNumber |-> None,
   head |-> None, base |-> None, changedFiles |-> None, createdBy |-> Undefined,
   color |-> Undefined, message |-> Undefined, messageURL |-> Undefined,
   labels |-> <<>>, requestedReviewers |-> <<>>]

\* case 'pull_request' of the switch
CasePullRequest(inp, ev) ==
  LET l == [Declared EXCEPT
              !.pullRequestNumber = Some(ev.number),
              !.title = Title,
              !.head = Some(<<generateBranchURL(RepoURL, HeadRef), HeadRef>>),
              !.base = Some(<<generateBranchURL(RepoURL, BaseRef), BaseRef>>),
              !.changedFiles = Some(<<PullURL(ev.number) \o "/files", ChangedFiles>>),
              !.createdBy = ev.author,
              !.messageURL = PullURL(ev.number),
              !.labels = names(ev.labels),
              !.requestedReviewers = getRequestedReviewers(ev.reviewers, inp.userMapping),
              !.eventStatus = Some(CharsOf(ev.action))]
  IN
  IF ev.action = "opened"
    THEN [l EXCEPT !.color = "#2DA44E", !.message = "opened this pull request."]
  ELSE IF ev.action = "reopened"
    THEN [l EXCEPT !.color = "#0D4C8C", !.message = "reopened this pull request."]
  ELSE IF ev.action = "closed"
    THEN IF ev.merged
         THEN [l EXCEPT !.eventStatus = Some(CharsOf("merged")),
                        !.color = "#8250DF", !.message = "merged this pull request."]
         ELSE [l EXCEPT !.color = "#CF222E", !.message = "closed this pull request."]
  ELSE l

\* case 'pull_request_review' of the switch; detail is what getPullRequestDetail
\* returned, None for null
CasePullRequestReview(inp, ev, detail) ==
  LET l0 == [Declared EXCEPT
               !.pullRequestNumber = Some(ev.number),
               !.title = Title,
               !.head = Some(<<generateBranchURL(RepoURL, HeadRef), HeadRef>>),
               !.base = Some(<<generateBranchURL(RepoURL, BaseRef), BaseRef>>),
               !.createdBy = ev.author,
               !.messageURL = PullURL(ev.number) \o "#pullrequestreview-1",
               !.labels = names(ev.labels),
               !.requestedReviewers = getRequestedReviewers(ev.reviewers, inp.userMapping),
               !.eventStatus = Some(CharsOf("review: "))]
      l == IF detail.some
           THEN [l0 EXCEPT !.changedFiles =
                   Some(<<detail.value.html_url \o "/files", detail.value.changed_files>>)]
           ELSE l0
      status == l.eventStatus.value
  IN
  IF ev.action = "submitted"
    THEN LET s == [l EXCEPT !.eventStatus =
                     Some(status \o replace(CharsOf(ev.state), "_", " "))]
         IN IF ev.state = "commented"
              THEN [s EXCEPT !.color = "#BBDFFF", !.message = "reviewed this pull request."]
            ELSE IF ev.state = "approved"
              THEN [s EXCEPT !.color = "#2DA44E", !.message = "approved this pull request."]
            ELSE IF ev.state = "changes_requested"
              THEN [s EXCEPT !.color = "#CF222E",
                             !.message = "requested changes on this pull request."]
            ELSE s
  ELSE IF ev.action = "edited"
    THEN [l EXCEPT !.eventStatus = Some(status \o CharsOf("updated a comment")),
                   !.color = "#BBDFFF",
                   !.message = "updated a review comment on this pull request."]
  ELSE IF ev.action = "dismissed"
    THEN [l EXCEPT !.eventStatus = Some(status \o CharsOf("dismissed")),
                   !.color = "#CF222E",
                   !.message = "dismissed the review changes on this pull request."]
  ELSE l

\* case 'issue_comment' of the switch
CaseIssueComment(inp, ev, detail) ==
  LET l0 == [Declared EXCEPT
               !.pullRequestNumber = Some(ev.number),
               !.title = Title,
               !.messageURL = PullURL(ev.number) \o "#issuecomment-1",
               !.labels = names(ev.labels)]
      d == detail.value
      l == IF detail.some
           THEN [l0 EXCEPT
                   !.head = Some(<<generateBranchURL(RepoURL, d.head_ref), d.head_ref>>),
                   !.base = Some(<<generateBranchURL(RepoURL, d.base_ref), d.base_ref>>),
                   !.createdBy = d.user,
                   !.changedFiles = Some(<<d.html_url \o "/files", d.changed_files>>),
                   !.requestedReviewers =
                      IF d.requested_reviewers.some
                      THEN getRequestedReviewers(d.requested_reviewers.value,
                                                 inp.userMapping)
                      ELSE <<>>]
           ELSE l0
  IN
  IF ev.action = "created"
    THEN [l EXCEPT !.eventStatus = Some(CharsOf("commented")),
                   !.color = "#BBDFFF", !.message = "commented on this pull request."]
  ELSE IF ev.action = "edited"
    THEN [l EXCEPT !.eventStatus = Some(CharsOf("updated a comment")),
                   !.message = "updated a comment on this pull request.",
                   !.color = "#BBDFFF"]
  ELSE l

\* the local variables at the end of the switch on eventName
Switch(inp, ev, detail) ==
  IF ev.eventName = "pull_request" THEN CasePullRequest(inp, ev)
  ELSE IF ev.eventName = "pull_request_review" THEN CasePullRequestReview(inp, ev, detail)
  ELSE IF ev.eventName = "issue_comment" THEN CaseIssueComment(inp, ev, detail)
  ELSE [Declared EXCEPT !.color = "#DDDDDD"]

\* the delimiter of a label (U+0060 in the code; a TLA+ string cannot hold
\* that character, the apostrophe stands for it)
Backquote == "'"

\* a section block; part names the push that made it (the code tells the
\* sections apart by their text only)
Section(part, text) == [type |-> "section", part |-> part, text |-> text]

\* the header text: "PULL REQUEST #", the number, " - ", the status in upper
\* case; an undefined number or status prints as "undefined"
HeaderText(l) ==
  Text(CharsOf("PULL REQUEST #")
       \o (IF l.pullRequestNumber.some
           THEN NumberToString(l.pullRequestNumber.value)
           ELSE CharsOf("undefined"))
       \o CharsOf(" - ")
       \o (IF l.eventStatus.some
           THEN toUpperCase(l.eventStatus.value)
           ELSE CharsOf("undefined")))

\* the blocks pushed after the switch (lines 330-416)
Blocks(l, userMapping) ==
  <<[type |-> "header", part |-> "header", text |-> HeaderText(l)],
    Section("title", ":small_blue_diamond: *Title:  " \o l.title \o "*")>>
  \o (IF l.head.some
      THEN <<Section("head", ":small_blue_diamond: *Head branch:*  <"
                             \o join(l.head.value, "|") \o ">")>>
      ELSE <<>>)
  \o (IF l.base.some
      THEN <<Section("base", ":small_blue_diamond: *Base branch:*  <"
                             \o join(l.base.value, "|") \o ">")>>
      ELSE <<>>)
  \o (IF l.changedFiles.some
      THEN <<Section("changedFiles", ":small_blue_diamond: *Files changed:*  <"
                       \o join(<<l.changedFiles.value[1],
                                 Text(NumberToString(l.changedFiles.value[2]))>>, "|")
                       \o ">")>>
      ELSE <<>>)
  \o (IF Len(l.labels) > 0
      THEN <<Section("labels", ":label: *Labels:*  "
                       \o join([i \in 1..Len(l.labels) |-> Backquote \o l.labels[i] \o Backquote], " "))>>
      ELSE <<>>)
  \o (IF Len(l.requestedReviewers) > 0
      THEN <<Section("requestedReviewers", ":technologist: *Requested Reviewers:*  "
                       \o join(l.requestedReviewers, ", "))>>
      ELSE <<>>)
  \o (IF Truthy(l.createdBy)
      THEN <<Section("createdBy", ":technologist: *Created by:*  "
                       \o generateUser(l.createdBy, userMapping))>>
      ELSE <<>>)
  \o <<[type |-> "divider", part |-> "divider"]>>

\* the one attachment (lines 421-461): its color and the two texts of its
\* first context block
Attachment(l, sender, userMapping) ==
  [color |-> l.color,
   text |-> generateUser(sender, userMapping) \o " "
            \o (IF l.message # Undefined THEN l.message ELSE "do nothing"),
   link |-> "<" \o (IF l.messageURL # Undefined THEN l.messageURL ELSE "undefined")
            \o "|View it on GitHub>"]

\* buildMessageContent after its await: detail is what getPullRequestDetail
\* returned (None for null, and for the events that do not call it)
buildMessageContent(inp, ev, detail) ==
  \* l ranges over the one result of the switch, so that it is computed once
  CHOOSE c \in {[blocks |-> Blocks(l, inp.userMapping),
                 attachments |-> <<Attachment(l, ev.sender, inp.userMapping)>>] :
                  l \in {Switch(inp, ev, detail)}} : TRUE

\* -------------------------------------------------------- utils, slack

\* a thrown Error with its message
Error(message) == [type |-> "Error", message |-> message]

\* a thrown string
ThrownString(value) == [type |-> "string", value |-> value]

\* a thrown plain object with the given <<key, string value>> fields, in order
ThrownObject(fields) == [type |-> "object", fields |-> fields]

\* the members of JSON.stringify(value, null, 2): one per line, indented by two
\* spaces, separated by commas
RECURSIVE Members(_)
Members(fields) ==
  IF fields = <<>> THEN ""
  ELSE "\n  \"" \o fields[1][1] \o "\": \"" \o fields[1][2] \o "\""
       \o (IF Len(fields) > 1 THEN "," ELSE "\n")
       \o Members(Tail(fields))

\* JSON.stringify(value, null, 2) of a thrown value that is no string and no Error
stringify(value) == "{" \o Members(value.fields) \o "}"

\* normalizeError without its first line: a string is stringified like any
\* other value that is no Error
normalizeError_StringifyStrings(error) ==
  IF error.type = "Error" THEN error.message
  ELSE IF error.type = "string" THEN "\"" \o error.value \o "\""
  ELSE stringify(error)

normalizeError(error) ==
  IF error.type = "string" THEN error.value
  ELSE IF error.type = "Error" THEN error.message
  ELSE stringify(error)

DEFAULT_TEXT == "This is a message from a github pull request."

\* the icons of addReaction, indexed from 0 as in the code
Icons == <<"heart", "heart_eyes", "smiling_face_with_3_hearts", "medal", "100">>

\* what the outbound calls reject with
FetchErrors == {Error("Not Found")}
PostErrors ==
  {Error("An API error occurred: channel_not_found"), ThrownString("socket hang up")}
ReactionErrors == {Error("An API error occurred: already_reacted")}
WebhookErrors ==
  {Error("An HTTP protocol error occurred: statusCode = 404"),
   ThrownObject(<<<<"code", "ECONNRESET">>>>), ThrownObject(<<>>)}

\* the answers of chat.postMessage
Timestamps == {Undefined, "1700000000.000100"}
Scopes == {None, Some({"chat:write"}), Some({"chat:write", "reactions:write"})}

\* the answers of pulls.get for the pull request of ev; of the answer to a
\* review event the builder reads html_url and changed_files only
DetailsFor(ev) ==
  IF ev.eventName = "pull_request_review"
  THEN {Detail(ev.number, ev.author, Some(ev.reviewers))}
  ELSE Details(ev)

\* ------------------------------------------------------------- the run

NoInput == [parsed |-> FALSE]

Init ==
  /\ event \in Events
  /\ env \in Envs
  /\ pc = "start"
  /\ input = NoInput
  /\ path = "none"
  /\ content = None
  /\ response = None
  /\ inflight = "none"
  /\ calls = <<>>
  /\ failed = <<>>
  /\ trace = <<>>
  /\ pullRequestDetail = None
  /\ locals = None
  /\ caught = None

\* the catch of run(): core.setFailed(normalizeError(error))
Catch(error) ==
  /\ caught' = Some(error)
  /\ failed' = Append(failed, normalizeError(error))
  /\ pc' = "failed"

\* Classify with the inputs parsed before the event is classified
Classify_ParseFirst ==
  /\ pc = "start"
  /\ trace' = Append(trace, "isValidEvent")
  /\ IF parseInput(env).threw
     THEN Catch(Error(parseInput(env).message))
     ELSE /\ pc' = IF isValidEvent(event) THEN "configure" ELSE "skipped"
          /\ failed' = failed
          /\ caught' = caught
  /\ UNCHANGED <<event, env, input, path, content, response, inflight, calls,
                 pullRequestDetail, locals>>

\* Classify with the inputs read and parsed first, then the event classified
Classify_InputsFirst ==
  /\ pc = "start"
  /\ trace' = <<"parseInput", "isValidEvent">>
  /\ IF parseInput(env).threw
     THEN Catch(Error(parseInput(env).message))
     ELSE /\ pc' = IF isValidEvent(event) THEN "configure" ELSE "skipped"
          /\ failed' = failed
          /\ caught' = caught
  /\ UNCHANGED <<event, env, input, path, content, response, inflight, calls,
                 pullRequestDetail, locals>>

\* run(), lines 354-361: classify the event, skip an invalid one
Classify ==
  /\ pc = "start"
  /\ trace' = Append(trace, "isValidEvent")
  /\ pc' = IF isValidEvent(event) THEN "configure" ELSE "skipped"
  /\ UNCHANGED <<event, env, input, path, content, response, inflight, calls, failed,
                 pullRequestDetail, locals,
                 caught>>

\* Credentials without the check of the channel id
Credentials_NoChannelCheck(inp) ==
  IF Len(inp.botToken) = 0 /\ Len(inp.webhookUrl) = 0
    THEN [threw |-> TRUE, message |-> AtLeastOneError]
  ELSE IF Len(inp.botToken) > 0
    THEN [threw |-> FALSE, value |-> "app"]
  ELSE [threw |-> FALSE, value |-> "webhook"]

\* Credentials with the webhook taking priority over the chat-app token
Credentials_WebhookFirst(inp) ==
  IF Len(inp.botToken) = 0 /\ Len(inp.webhookUrl) = 0
    THEN [threw |-> TRUE, message |-> AtLeastOneError]
  ELSE IF Len(inp.webhookUrl) > 0
    THEN [threw |-> FALSE, value |-> "webhook"]
  ELSE IF Len(inp.channelId) = 0
    THEN [threw |-> TRUE, message |-> ChannelError]
  ELSE [threw |-> FALSE, value |-> "app"]

\* run(), lines 366-399: the checks of the credentials and the choice of the
\* delivery path: the Error thrown, or "app", "webhook" or "none"
Credentials(inp) ==
  IF Len(inp.botToken) = 0 /\ Len(inp.webhookUrl) = 0
    THEN [threw |-> TRUE, message |-> AtLeastOneError]
  ELSE IF Len(inp.botToken) > 0
    THEN IF Len(inp.channelId) = 0
         THEN [threw |-> TRUE, message |-> ChannelError]
         ELSE [threw |-> FALSE, value |-> "app"]
  ELSE IF Len(inp.webhookUrl) > 0
    THEN [threw |-> FALSE, value |-> "webhook"]
  ELSE [threw |-> FALSE, value |-> "none"]

\* run(), lines 363-381 and 398-399: parse the inputs, check the credentials,
\* choose the delivery path
Configure ==
  /\ pc = "configure"
  /\ trace' = Append(trace, "parseInput")
  /\ LET r == parseInput(env) IN
     IF r.threw
     THEN Catch(Error(r.message)) /\ UNCHANGED <<input, path>>
     ELSE /\ input' = r.value
          /\ LET c == Credentials(r.value) IN
             IF c.threw
             THEN Catch(Error(c.message)) /\ path' = path
             ELSE /\ path' = c.value
                  /\ pc' = IF c.value = "none" THEN "done" ELSE "build"
                  /\ failed' = failed
                  /\ caught' = caught
  /\ UNCHANGED <<event, env, content, response, inflight, calls, pullRequestDetail, locals>>

\* TokenGiven without the check of the token
TokenGiven_Always(token) == TRUE

\* getPullRequestDetail, line 86: without a token it returns null at once
TokenGiven(token) == Truthy(token)

\* buildMessageContent returns: the locals at the end of the switch, the content
Built(d) ==
  /\ pullRequestDetail' = d
  /\ locals' = Some(Switch(input, event, d))
  /\ content' = Some(buildMessageContent(input, event, d))
  /\ pc' = "post"

\* Build without the await of getPullRequestDetail: pulls.get is called and
\* the builder goes on at once, with no detail
Build_NoAwait ==
  /\ pc = "build"
  /\ trace' = Append(trace, "buildMessageContent")
  /\ Built(None)
  /\ IF /\ event.eventName \in {"pull_request_review", "issue_comment"}
        /\ TokenGiven(input.githubToken)
     THEN /\ calls' = Append(calls, [api |-> "pulls.get",
                                     token |-> input.githubToken,
                                     pull_number |-> event.number])
          /\ inflight' = "pulls.get"
     ELSE UNCHANGED <<inflight, calls>>
  /\ UNCHANGED <<event, env, input, path, response, failed, caught>>

\* postMessage / postMessageWithWebhook call buildMessageContent, which runs
\* to its await of getPullRequestDetail (review and comment events) or to its end
Build ==
  /\ pc = "build"
  /\ trace' = Append(trace, "buildMessageContent")
  /\ IF event.eventName \in {"pull_request_review", "issue_comment"}
     THEN IF ~TokenGiven(input.githubToken)
          THEN Built(None) /\ UNCHANGED <<inflight, calls>>
          ELSE /\ calls' = Append(calls, [api |-> "pulls.get",
                                          token |-> input.githubToken,
                                          pull_number |-> event.number])
               /\ inflight' = "pulls.get"
               /\ pc' = "fetching"
               /\ UNCHANGED <<content, pullRequestDetail, locals>>
     ELSE Built(None) /\ UNCHANGED <<inflight, calls>>
  /\ UNCHANGED <<event, env, input, path, response, failed,
                 caught>>

\* pulls.get answers: the builder goes on to its end
FetchOk ==
  /\ pc = "fetching"
  /\ \E d \in DetailsFor(event) : Built(Some(d))
  /\ inflight' = "none"
  /\ trace' = Append(trace, "pulls.get returned")
  /\ UNCHANGED <<event, env, input, path, response, calls, failed,
                 caught>>

\* pulls.get rejects: the error reaches the catch of run()
FetchFail ==
  /\ pc = "fetching"
  /\ \E e \in FetchErrors : Catch(e)
  /\ inflight' = "none"
  /\ trace' = Append(trace, "pulls.get threw")
  /\ UNCHANGED <<event, env, input, path, content, response, calls, pullRequestDetail, locals>>

\* postMessage line 483 / postMessageWithWebhook line 551: send the content
Post ==
  /\ pc = "post"
  /\ IF path = "app"
     THEN /\ calls' = Append(calls, [api |-> "chat.postMessage",
                                     channel |-> input.channelId,
                                     text |-> DEFAULT_TEXT,
                                     content |-> content.value])
          /\ inflight' = "chat.postMessage"
     ELSE /\ calls' = Append(calls, [api |-> "webhook.send",
                                     url |-> input.webhookUrl,
                                     text |-> DEFAULT_TEXT,
                                     content |-> content.value])
          /\ inflight' = "webhook.send"
  /\ pc' = "posting"
  /\ trace' = Append(trace, inflight')
  /\ UNCHANGED <<event, env, input, path, content, response, failed, pullRequestDetail, locals,
                 caught>>

\* ShouldReact without the check of the scopes
ShouldReact_TsOnly(resp) == Truthy(resp.ts)

\* run(), lines 384-387: response.ts && response.metadata_scopes?.includes(...)
ShouldReact(resp) ==
  /\ Truthy(resp.ts)
  /\ resp.metadata_scopes.some
  /\ "reactions:write" \in resp.metadata_scopes.value

\* chat.postMessage answers: postMessage returns {ts, metadata_scopes} and run()
\* goes on to the reaction, or returns
PostOk ==
  /\ pc = "posting"
  /\ path = "app"
  /\ \E ts \in Timestamps, scopes \in Scopes :
       /\ response' = Some([ts |-> ts, metadata_scopes |-> scopes])
       /\ pc' = IF ShouldReact([ts |-> ts, metadata_scopes |-> scopes])
                THEN "react"
                ELSE "done"
  /\ inflight' = "none"
  /\ trace' = Append(trace, "chat.postMessage returned")
  /\ UNCHANGED <<event, env, input, path, content, calls, failed, pullRequestDetail, locals,
                 caught>>

\* chat.postMessage rejects
PostFail ==
  /\ pc = "posting"
  /\ path = "app"
  /\ \E e \in PostErrors : Catch(e)
  /\ inflight' = "none"
  /\ trace' = Append(trace, "chat.postMessage threw")
  /\ UNCHANGED <<event, env, input, path, content, response, calls, pullRequestDetail, locals>>

\* webhook.send answers: run() ends
WebhookOk ==
  /\ pc = "posting"
  /\ path = "webhook"
  /\ pc' = "done"
  /\ inflight' = "none"
  /\ trace' = Append(trace, "webhook.send returned")
  /\ UNCHANGED <<event, env, input, path, content, response, calls, failed, pullRequestDetail, locals,
                 caught>>

\* webhook.send rejects
WebhookFail ==
  /\ pc = "posting"
  /\ path = "webhook"
  /\ \E e \in WebhookErrors : Catch(e)
  /\ inflight' = "none"
  /\ trace' = Append(trace, "webhook.send threw")
  /\ UNCHANGED <<event, env, input, path, content, response, calls, pullRequestDetail, locals>>

\* addReaction, lines 514-528: pick an icon, call reactions.add
React ==
  /\ pc = "react"
  /\ \E i \in 0..(Len(Icons) - 1) :
       calls' = Append(calls, [api |-> "reactions.add",
                               channel |-> input.channelId,
                               name |-> Icons[i + 1],
                               timestamp |-> response.value.ts])
  /\ inflight' = "reactions.add"
  /\ pc' = "reacting"
  /\ trace' = Append(trace, "reactions.add")
  /\ UNCHANGED <<event, env, input, path, content, response, failed, pullRequestDetail, locals,
                 caught>>

\* reactions.add answers: run() returns
ReactOk ==
  /\ pc = "reacting"
  /\ pc' = "done"
  /\ inflight' = "none"
  /\ trace' = Append(trace, "reactions.add returned")
  /\ UNCHANGED <<event, env, input, path, content, response, calls, failed, pullRequestDetail, locals,
                 caught>>

\* ReactFail with the rejection handled on its own: run() returns normally
ReactFail_Swallowed ==
  /\ pc = "reacting"
  /\ pc' = "done"
  /\ inflight' = "none"
  /\ trace' = Append(trace, "reactions.add threw")
  /\ UNCHANGED <<event, env, input, path, content, response, calls, failed,
                 pullRequestDetail, locals, caught>>

\* reactions.add rejects
ReactFail ==
  /\ pc = "reacting"
  /\ \E e \in ReactionErrors : Catch(e)
  /\ inflight' = "none"
  /\ trace' = Append(trace, "reactions.add threw")
  /\ UNCHANGED <<event, env, input, path, content, response, calls, pullRequestDetail, locals>>

Next ==
  \/ Classify
  \/ Configure
  \/ Build
  \/ FetchOk
  \/ FetchFail
  \/ Post
  \/ PostOk
  \/ PostFail
  \/ WebhookOk
  \/ WebhookFail
  \/ React
  \/ ReactOk
  \/ ReactFail

Spec == Init /\ [][Next]_vars

\* ------------------------------------------- the user-mapping texts

\* most entries of a user-mapping object
MaxEntries == 2

\* the flat objects: up to MaxEntries entries, keys may repeat, a value is a
\* member id, the empty string or null
EntryLists ==
  SeqsUpTo({"alice", "bob"} \X {Str("U123"), Str(""), Word("null")}, MaxEntries)

\* a text with its i-th token left out
Without(t, i) == SubSeq(t, 1, i - 1) \o SubSeq(t, i + 1, Len(t))

\* the texts of the flat objects, each also with any one token left out, and
\* the texts of the run's model; null alone is JSON and no object
MappingTexts ==
  LET objects == {Render(e) : e \in EntryLists} IN
  objects
  \cup UNION {{Without(t, i) : i \in 1..Len(t)} : t \in objects}
  \cup UserMappings
  \cup {<<Word("null")>>}

\* an accepted pull_request event and an accepted comment event
MappingEvents ==
  {Event("pull_request", "opened", FALSE, Undefined, "absent", FALSE, 7, "alice",
         "bob", <<>>, <<>>),
   Event("issue_comment", "created", FALSE, Undefined, "absent", TRUE, 7, "bob",
         Undefined, <<>>, <<>>)}

\* a run of an accepted event with any of the user-mapping texts, on either
\* delivery path
InitMapping ==
  /\ event \in MappingEvents
  /\ env \in [githubToken : {"ghs_token"}, botToken : BotTokens,
               channelId : {"C0123"},
               webhookUrl : {"https://hooks.slack.com/services/T/B/X"},
               userMapping : MappingTexts]
  /\ pc = "start"
  /\ input = NoInput
  /\ path = "none"
  /\ content = None
  /\ response = None
  /\ inflight = "none"
  /\ calls = <<>>
  /\ failed = <<>>
  /\ trace = <<>>
  /\ pullRequestDetail = None
  /\ locals = None
  /\ caught = None

SpecMapping == InitMapping /\ [][Next]_vars

\* ------------------------------------------------- the runs that end

\* the events of one pull request sent by one user: every event name, action,
\* review state and change of the model
OnePullRequestEvents ==
  {e \in Events : /\ e.number = 7
                  /\ e.sender = "alice"
                  /\ e.author \in {"alice", Undefined}
                  /\ e.reviewers = <<>>
                  /\ e.labels = <<>>}

InitOnePullRequest ==
  /\ event \in OnePullRequestEvents
  /\ env \in Envs
  /\ pc = "start"
  /\ input = NoInput
  /\ path = "none"
  /\ content = None
  /\ response = None
  /\ inflight = "none"
  /\ calls = <<>>
  /\ failed = <<>>
  /\ trace = <<>>
  /\ pullRequestDetail = None
  /\ locals = None
  /\ caught = None

\* run() is one async function: the event loop runs each of its continuations,
\* and every awaited call is answered or rejected (the clients time out and
\* stop retrying), so a step that can be taken is taken
SpecFair == InitOnePullRequest /\ [][Next]_vars /\ WF_vars(Next)

\* ------------------------------------------------------- the properties

\* the calls issued so far to one api
CallsTo(api) == {i \in 1..Len(calls) : calls[i].api = api}
PostCalls == CallsTo("chat.postMessage") \cup CallsTo("webhook.send")

\* the run has ended
Ended == pc \in {"skipped", "failed", "done"}

\* the (event name, action) table of the classifier, as documented
Accepted(ev) ==
  \/ /\ ev.eventName = "pull_request"
     /\ ev.action \in {"opened", "reopened", "closed"}
  \/ /\ ev.eventName = "pull_request_review"
     /\ \/ ev.action \in {"submitted", "dismissed"}
        \/ ev.action = "edited" /\ ev.changes = "body"
  \/ /\ ev.eventName = "issue_comment"
     /\ ev.action \in {"created", "edited"}
     /\ ev.issuePR

\* C1: once the event is classified, the run goes on exactly for the events of
\* the documented table and is skipped for every other event
C1_ClassifierTable ==
  pc # "start" => ((pc # "skipped") <=> Accepted(event))

\* an edited review whose changes hold no body entry has been skipped
C1_Witness ==
  /\ pc = "skipped"
  /\ event.eventName = "pull_request_review"
  /\ event.action = "edited"
  /\ event.changes = "other"

\* C2: a rejected event ends the run at once: nothing is reported as failed, no
\* outbound call is issued or awaited, the inputs are not read, nothing is built
C2_RejectedIsNoOp ==
  ~Accepted(event) =>
    /\ pc \in {"start", "skipped"}
    /\ failed = <<>>
    /\ calls = <<>>
    /\ inflight = "none"
    /\ input = NoInput
    /\ content = None
    /\ locals = None

\* a rejected event was skipped under inputs that fail an accepted event
C2_Witness ==
  /\ pc = "skipped"
  /\ env.userMapping = NotJSON
  /\ env.botToken = ""
  /\ env.webhookUrl = ""

\* the user-mapping input is absent or parses as JSON
MappingParses(e) == e.userMapping \in {EmptyText, Render(<<>>), AliceBobText}

\* the run is past the reading of the inputs
Configured == pc \notin {"start", "skipped", "configure"}

C4_ExclusivePaths ==
  /\ Cardinality(PostCalls) <= 1
  /\ CallsTo("webhook.send") # {} => (env.botToken = "" /\ env.webhookUrl # "")
  /\ CallsTo("chat.postMessage") # {} => (env.botToken # "" /\ env.channelId # "")
  /\ env.botToken # "" => CallsTo("webhook.send") = {}
  /\ (pc = "done" /\ env.botToken # "") => Cardinality(CallsTo("chat.postMessage")) = 1
  /\ (pc = "done" /\ env.botToken = "") => Cardinality(CallsTo("webhook.send")) = 1

\* a run with both credentials ended after posting through the chat-app client
C4_Witness ==
  /\ pc = "done"
  /\ env.botToken # ""
  /\ env.webhookUrl # ""
  /\ Cardinality(CallsTo("chat.postMessage")) = 1

\* the post answered with a timestamp and with the reactions:write scope
ReactionGranted ==
  /\ response.some
  /\ response.value.ts # Undefined
  /\ response.value.ts # ""
  /\ response.value.metadata_scopes.some
  /\ "reactions:write" \in response.value.metadata_scopes.value

\* C5: by the end of a run a reaction call was made exactly when the chat-app
\* post answered with a timestamp and the reactions:write scope; it is made at
\* most once, after the post, never on the webhook path, and it names the
\* timestamp of the answer and one of the five icons
C5_ReactionIff ==
  /\ Cardinality(CallsTo("reactions.add")) <= 1
  /\ \A i \in CallsTo("reactions.add") :
       /\ ReactionGranted
       /\ path = "app"
       /\ \E j \in CallsTo("chat.postMessage") : j < i
       /\ calls[i].timestamp = response.value.ts
       /\ calls[i].name \in {"heart", "heart_eyes", "smiling_face_with_3_hearts",
                             "medal", "100"}
  /\ path = "webhook" => (response = None /\ CallsTo("reactions.add") = {})
  /\ Ended => (CallsTo("reactions.add") # {} <=> ReactionGranted)

\* a run ended after reacting with the medal to the message it posted
C5_Witness ==
  /\ pc = "done"
  /\ \E i \in CallsTo("reactions.add") : calls[i].name = "medal"

\* the decimal text of the pull-request numbers of the model
NumberText(n) == CASE n = 7 -> "7" [] n = 42 -> "42"

\* the section kinds of the built message, in the order of its blocks
Parts == [i \in 1..Len(content.value.blocks) |-> content.value.blocks[i].part]
HasPart(p) == \E i \in 1..Len(content.value.blocks) : content.value.blocks[i].part = p

\* the documented row of a pull_request event:
\* <<status, accent, verb, status in upper case>>
PullRequestRow(ev) ==
  CASE ev.action = "opened" ->
         <<"opened", "#2DA44E", "opened this pull request.", "OPENED">>
    [] ev.action = "reopened" ->
         <<"reopened", "#0D4C8C", "reopened this pull request.", "REOPENED">>
    [] ev.action = "closed" /\ ev.merged ->
         <<"merged", "#8250DF", "merged this pull request.", "MERGED">>
    [] ev.action = "closed" /\ ~ev.merged ->
         <<"closed", "#CF222E", "closed this pull request.", "CLOSED">>

\* C6: the message built for a pull_request event has the documented status,
\* accent and verb, and the header "PULL REQUEST #<number> - <STATUS>"
C6_PullRequestTable ==
  (locals.some /\ event.eventName = "pull_request") =>
    LET row == PullRequestRow(event)
        l == locals.value
    IN /\ l.eventStatus.some
       /\ Text(l.eventStatus.value) = row[1]
       /\ l.color = row[2]
       /\ l.message = row[3]
       /\ content.value.attachments[1].color = row[2]
       /\ content.value.blocks[1].type = "header"
       /\ content.value.blocks[1].text =
            "PULL REQUEST #" \o NumberText(event.number) \o " - " \o row[4]

\* the message of a merged pull request 42 was built
C6_Witness ==
  /\ content.some
  /\ event.eventName = "pull_request"
  /\ event.action = "closed"
  /\ event.merged
  /\ content.value.blocks[1].text = "PULL REQUEST #42 - MERGED"
  /\ content.value.attachments[1].color = "#8250DF"

\* the documented row of a review or comment event: <<status, accent, verb>>
ReviewOrCommentRow(ev) ==
  CASE ev.eventName = "pull_request_review" /\ ev.action = "submitted"
         /\ ev.state = "commented" ->
         <<"review: commented", "#BBDFFF", "reviewed this pull request.">>
    [] ev.eventName = "pull_request_review" /\ ev.action = "submitted"
         /\ ev.state = "approved" ->
         <<"review: approved", "#2DA44E", "approved this pull request.">>
    [] ev.eventName = "pull_request_review" /\ ev.action = "submitted"
         /\ ev.state = "changes_requested" ->
         <<"review: changes requested", "#CF222E",
           "requested changes on this pull request.">>
    [] ev.eventName = "pull_request_review" /\ ev.action = "edited" ->
         <<"review: updated a comment", "#BBDFFF",
           "updated a review comment on this pull request.">>
    [] ev.eventName = "pull_request_review" /\ ev.action = "dismissed" ->
         <<"review: dismissed", "#CF222E",
           "dismissed the review changes on this pull request.">>
    [] ev.eventName = "issue_comment" /\ ev.action = "created" ->
         <<"commented", "#BBDFFF", "commented on this pull request.">>
    [] ev.eventName = "issue_comment" /\ ev.action = "edited" ->
         <<"updated a comment", "#BBDFFF", "updated a comment on this pull request.">>

\* C7: the message built for a review or comment event has the documented
\* status, accent and verb
C7_ReviewCommentTable ==
  (locals.some /\ event.eventName \in {"pull_request_review", "issue_comment"}) =>
    LET row == ReviewOrCommentRow(event)
        l == locals.value
    IN /\ l.eventStatus.some
       /\ Text(l.eventStatus.value) = row[1]
       /\ l.color = row[2]
       /\ l.message = row[3]
       /\ content.value.attachments[1].color = row[2]

\* the message of a review that requests changes was built
C7_Witness ==
  /\ locals.some
  /\ event.eventName = "pull_request_review"
  /\ event.action = "submitted"
  /\ event.state = "changes_requested"
  /\ Text(locals.value.eventStatus.value) = "review: changes requested"
  /\ content.value.attachments[1].color = "#CF222E"

\* C8: pulls.get is called at most once, only for a review or comment event and
\* only with a hosting token. Without a token a review or comment run is never
\* waiting for the fetch, fails only after the post was issued, builds its
\* message without the changed-files section (a comment event also without
\* head branch, base branch, requested reviewers and author) and ends
\* normally only after posting exactly that message
C8_FetchNeedsToken ==
  /\ Cardinality(CallsTo("pulls.get")) <= 1
  /\ CallsTo("pulls.get") # {} =>
       /\ event.eventName \in {"pull_request_review", "issue_comment"}
       /\ env.githubToken # ""
  /\ event.eventName = "pull_request" => (CallsTo("pulls.get") = {} /\ pc # "fetching")
  /\ (env.githubToken = "" /\ event.eventName \in {"pull_request_review", "issue_comment"}) =>
       /\ pc # "fetching"
       /\ (pc = "failed" /\ path # "none") => PostCalls # {}
       /\ (path # "none" /\ pc # "build") => content.some
       /\ content.some =>
            /\ ~HasPart("changedFiles")
            /\ event.eventName = "issue_comment" =>
                 /\ ~HasPart("head")
                 /\ ~HasPart("base")
                 /\ ~HasPart("requestedReviewers")
                 /\ ~HasPart("createdBy")
       /\ pc = "done" =>
            /\ Cardinality(PostCalls) = 1
            /\ \A i \in PostCalls : calls[i].content = content.value

\* a comment run without a token ended after posting a message that has the
\* header, the title, the labels and the divider only
C8_Witness ==
  /\ pc = "done"
  /\ event.eventName = "issue_comment"
  /\ env.githubToken = ""
  /\ calls # <<>>
  /\ Parts = <<"header", "title", "labels", "divider">>

\* the place of a section kind in the documented order
Rank(p) ==
  CASE p = "header" -> 1
    [] p = "title" -> 2
    [] p = "head" -> 3
    [] p = "base" -> 4
    [] p = "changedFiles" -> 5
    [] p = "labels" -> 6
    [] p = "requestedReviewers" -> 7
    [] p = "createdBy" -> 8
    [] p = "divider" -> 9

\* the requested reviewers the builder is given: those of the payload, or for
\* a comment event those of the fetched detail
GivenReviewers ==
  IF event.eventName = "issue_comment"
  THEN IF pullRequestDetail.some /\ pullRequestDetail.value.requested_reviewers.some
       THEN pullRequestDetail.value.requested_reviewers.value
       ELSE <<>>
  ELSE event.reviewers

\* the users among them, in order
GivenUsers == SelectSeq(GivenReviewers, LAMBDA r : "login" \in DOMAIN r)

\* the pull-request fields the builder knows, from the event and the fetch alone
DetailKnown == pullRequestDetail.some
BranchesKnown ==
  event.eventName \in {"pull_request", "pull_request_review"}
  \/ (event.eventName = "issue_comment" /\ DetailKnown)
ChangedFilesKnown ==
  event.eventName = "pull_request"
  \/ (event.eventName \in {"pull_request_review", "issue_comment"} /\ DetailKnown)
AuthorKnown ==
  event.eventName \in {"pull_request", "pull_request_review"}
  \/ (event.eventName = "issue_comment" /\ DetailKnown
      /\ pullRequestDetail.value.user # Undefined)

\* C9: the blocks of every built message are header, title, the optional
\* sections in the documented order, divider; an optional section is there
\* exactly when its field is known (labels and reviewers: when the list is not
\* empty); there is one attachment; the reviewers shown are the users among the
\* requested reviewers, one entry each, and no team
C9_SectionOrder ==
  content.some =>
    LET b == content.value.blocks
        n == Len(b)
    IN /\ n >= 3
       /\ b[1].type = "header" /\ b[1].part = "header"
       /\ b[2].type = "section" /\ b[2].part = "title"
       /\ b[n].type = "divider" /\ b[n].part = "divider"
       /\ \A i \in 1..n : \A j \in 1..n : i < j => Rank(b[i].part) < Rank(b[j].part)
       /\ \A i \in 2..(n - 1) : b[i].type = "section" /\ Len(b[i].text) > 0
       /\ Len(content.value.attachments) = 1
       /\ HasPart("head") <=> BranchesKnown
       /\ HasPart("base") <=> BranchesKnown
       /\ HasPart("changedFiles") <=> ChangedFilesKnown
       /\ HasPart("labels") <=> Len(event.labels) > 0
       /\ HasPart("requestedReviewers") <=> Len(GivenUsers) > 0
       /\ HasPart("createdBy") <=> AuthorKnown
       /\ Len(locals.value.requestedReviewers) = Len(GivenUsers)
       /\ \A i \in 1..Len(GivenUsers) :
            locals.value.requestedReviewers[i] \in
              {GivenUsers[i].login,
               "<@U123> (" \o GivenUsers[i].login \o ")"}
       /\ \A i \in 1..n :
            b[i].part = "requestedReviewers" =>
              b[i].text = ":technologist: *Requested Reviewers:*  "
                          \o join(locals.value.requestedReviewers, ", ")

\* a message with every section was built from a reviewer list of a team and a user
C9_Witness ==
  /\ content.some
  /\ event.reviewers = <<[slug |-> "core-team"], [login |-> "alice"]>>
  /\ Parts = <<"header", "title", "head", "base", "changedFiles", "labels",
               "requestedReviewers", "createdBy", "divider">>
  /\ locals.value.requestedReviewers = <<"<@U123> (alice)">>

\* the display identity the claim gives a username under the resolved mapping
DocumentedUser(u) ==
  IF u \in DOMAIN input.userMapping
  THEN "<@" \o input.userMapping[u] \o "> (" \o u \o ")"
  ELSE u

\* C10 as stated: in every built message the sender of the attachment and the
\* author of the "Created by" section are shown as the mention and the username
\* when the mapping holds the username, else as the username alone; the lookup
\* leaves the mapping as parseInput returned it
C10_AsStated ==
  content.some =>
    /\ content.value.attachments[1].text =
         DocumentedUser(event.sender) \o " " \o locals.value.message
    /\ \A i \in 1..Len(content.value.blocks) :
         content.value.blocks[i].part = "createdBy" =>
           content.value.blocks[i].text =
             ":technologist: *Created by:*  " \o DocumentedUser(locals.value.createdBy)
    /\ input = parseInput(env).value

\* the texts of the flat objects
ObjectTexts == {Render(e) : e \in EntryLists}

\* the entries a text of a flat object was written from
EntriesOf(text) == CHOOSE e \in EntryLists : Render(e) = text

\* the value an object holds for key k: that of the last entry with the key
LastValue(entries, k) ==
  LET i == CHOOSE i \in 1..Len(entries) :
             entries[i][1] = k /\ \A j \in 1..Len(entries) : entries[j][1] = k => j <= i
  IN entries[i][2]

\* the keys of the entries whose value is a non-empty string
KeptKeys(entries) ==
  {k \in {entries[i][1] : i \in 1..Len(entries)} :
     LastValue(entries, k) \notin {Str(""), Word("null")}}

\* C11: once the inputs are parsed, a user-mapping text of a flat object gives
\* exactly its entries with a non-empty value, keys and values unchanged, and
\* never an empty member id; an absent text gives the empty mapping; a text
\* that is not JSON makes the run fail with the user-mapping error before any
\* outbound call
C11_UserMappingParsing ==
  Configured =>
    IF env.userMapping = EmptyText
    THEN /\ "userMapping" \in DOMAIN input
         /\ DOMAIN input.userMapping = {}
    ELSE IF env.userMapping \in ObjectTexts
    THEN LET entries == EntriesOf(env.userMapping) IN
         /\ "userMapping" \in DOMAIN input
         /\ DOMAIN input.userMapping = KeptKeys(entries)
         /\ \A k \in KeptKeys(entries) :
              /\ Str(input.userMapping[k]) = LastValue(entries, k)
              /\ input.userMapping[k] # ""
         /\ failed # <<MappingError>>
    ELSE IF env.userMapping = <<Word("null")>>
    THEN TRUE
    ELSE /\ pc = "failed"
         /\ failed = <<MappingError>>
         /\ input = NoInput
         /\ calls = <<>>

\* the mapping {"alice":"U123","bob":""} was parsed to {"alice":"U123"}
C11_Witness ==
  /\ Configured
  /\ env.userMapping = AliceBobText
  /\ input.userMapping = [alice |-> "U123"]

\* the reason the documentation gives for a thrown value: a string itself, an
\* Error's message, the JSON text (indented by two spaces) of anything else
DocumentedReason(error) ==
  IF error = ThrownString("socket hang up") THEN "socket hang up"
  ELSE IF error = ThrownObject(<<>>) THEN "{}"
  ELSE IF error = ThrownObject(<<<<"code", "ECONNRESET">>>>)
    THEN "{\n  \"code\": \"ECONNRESET\"\n}"
  ELSE error.message

\* the step of the run that threw, by the last entry of the trace
Threw ==
  /\ trace # <<>>
  /\ \/ trace[Len(trace)] \in {"pulls.get threw", "chat.postMessage threw",
                               "webhook.send threw", "reactions.add threw"}
     \/ /\ trace[Len(trace)] = "parseInput"
        /\ \/ ~MappingParses(env)
           \/ Len(env.botToken) = 0 /\ Len(env.webhookUrl) = 0
           \/ Len(env.botToken) > 0 /\ Len(env.channelId) = 0

\* the failure of a run is reported once, for the value thrown, with the
\* documented reason; a run where nothing is thrown reports none
ReportedOnce ==
  /\ Len(failed) <= 1
  /\ Threw <=> caught.some
  /\ caught.some <=> pc = "failed"
  /\ caught.some => failed = <<DocumentedReason(caught.value)>>
  /\ ~caught.some => failed = <<>>
  /\ pc = "skipped" => failed = <<>>

\* C12: every error thrown while the inputs are parsed, the credentials are
\* checked, the detail is fetched, the message is posted or the reaction is
\* added is caught by run() and reported as the failure of the run exactly
\* once, with the error's message, the string itself or the stringified value
\* as the reason; a run where nothing is thrown, a skipped one included,
\* reports no failure; every run ends
C12_ErrorsReportedOnce == []ReportedOnce /\ <>Ended

\* a rejected webhook call threw a plain object, reported as its JSON text
C12_Witness ==
  /\ pc = "failed"
  /\ trace[Len(trace)] = "webhook.send threw"
  /\ caught = Some(ThrownObject(<<<<"code", "ECONNRESET">>>>))
  /\ failed = <<"{\n  \"code\": \"ECONNRESET\"\n}">>

\* every step b of the run so far came after a step a
Before(a, b) ==
  \A i \in 1..Len(trace) : trace[i] = b => \E j \in 1..(i - 1) : trace[j] = a

\* the steps that send the message
Sends == {"chat.postMessage", "webhook.send"}

\* the number of times a step was taken
Times(a) == Cardinality({i \in 1..Len(trace) : trace[i] = a})

\* C13 as stated: the inputs are read and parsed before the event is
\* classified, the event is classified before a message is built, the message
\* is built before it is sent
C13_AsStated ==
  /\ Before("parseInput", "isValidEvent")
  /\ Before("isValidEvent", "buildMessageContent")
  /\ \A send \in Sends : Before("buildMessageContent", send)

\* C13: in every run the event is classified first, the inputs are read and
\* parsed after that (a skipped run never reads them), the message is built
\* after the inputs are parsed, and it is sent after it is built; each of
\* these steps is taken at most once
C13_StepOrder ==
  /\ Before("isValidEvent", "parseInput")
  /\ Before("parseInput", "buildMessageContent")
  /\ \A send \in Sends : Before("buildMessageContent", send)
  /\ \A a \in {"isValidEvent", "parseInput", "buildMessageContent"} : Times(a) <= 1
  /\ Times("chat.postMessage") + Times("webhook.send") <= 1
  /\ pc = "skipped" => trace = <<"isValidEvent">>

\* a run that took the four steps and delivered its message
C13_Witness ==
  /\ pc = "done"
  /\ Len(trace) >= 4
  /\ SubSeq(trace, 1, 4) =
       <<"isValidEvent", "parseInput", "buildMessageContent", "webhook.send">>

\* the answers of the outbound calls so far: returned or rejected
Answers ==
  {i \in 1..Len(trace) :
     trace[i] \in {"pulls.get returned", "pulls.get threw",
                   "chat.postMessage returned", "chat.postMessage threw",
                   "webhook.send returned", "webhook.send threw",
                   "reactions.add returned", "reactions.add threw"}}

\* the outbound calls issued and not answered yet
Outstanding == Len(calls) - Cardinality(Answers)

\* the place of a call in a run: fetch, post, reaction
CallRank(api) ==
  IF api = "pulls.get" THEN 1
  ELSE IF api \in {"chat.postMessage", "webhook.send"} THEN 2
  ELSE 3

\* C14: the outbound calls of a run are sequential: at most one fetch, one post
\* and one reaction call are issued, in this order; the post is issued only
\* after the fetch (if any) has returned, the reaction only after the post has
\* returned; and at most one call is unanswered at any time
C14_SequentialCalls ==
  /\ Cardinality(CallsTo("pulls.get")) <= 1
  /\ Cardinality(PostCalls) <= 1
  /\ Cardinality(CallsTo("reactions.add")) <= 1
  /\ \A i, j \in 1..Len(calls) :
       i < j => CallRank(calls[i].api) < CallRank(calls[j].api)
  /\ Outstanding \in {0, 1}
  /\ (Outstanding = 1) <=> (inflight # "none")
  /\ inflight # "none" => calls[Len(calls)].api = inflight
  /\ (PostCalls # {} /\ CallsTo("pulls.get") # {}) => Times("pulls.get returned") = 1
  /\ CallsTo("reactions.add") # {} => Times("chat.postMessage returned") = 1

\* a run that fetched the detail, posted the message and added the reaction,
\* one call after the other
C14_Witness ==
  /\ pc = "done"
  /\ Len(calls) = 3
  /\ trace = <<"isValidEvent", "parseInput", "buildMessageContent",
               "pulls.get returned", "chat.postMessage",
               "chat.postMessage returned", "reactions.add",
               "reactions.add returned">>

\* the message was accepted by Slack: the post call returned
Posted == Times("chat.postMessage returned") + Times("webhook.send returned") = 1

\* the run reported a failure, through the one catch of run()
ReportedFailure ==
  /\ pc = "failed"
  /\ caught.some
  /\ failed = <<normalizeError(caught.value)>>

\* C15: when the fetch of the detail or the post is rejected, the run reports a
\* failure, no message is posted and no reaction is attempted; when the
\* reaction is rejected after a post that returned, the run reports a failure
\* the same way and the message stays posted; a failed run on the webhook path
\* delivered no message
C15_PartialOutcomes ==
  /\ (Times("pulls.get threw") + Times("chat.postMessage threw")
        + Times("webhook.send threw") > 0) =>
       /\ ReportedFailure
       /\ ~Posted
       /\ CallsTo("reactions.add") = {}
  /\ Times("pulls.get threw") > 0 => PostCalls = {}
  /\ Times("reactions.add threw") > 0 =>
       /\ ReportedFailure
       /\ Posted
       /\ Cardinality(CallsTo("chat.postMessage")) = 1
       /\ caught.value \in ReactionErrors
  /\ (path = "webhook" /\ pc = "failed") => ~Posted
  /\ (pc = "failed" /\ Posted) => Times("reactions.add threw") = 1

\* the reaction was rejected after the message was posted: the run failed
C15_Witness ==
  /\ pc = "failed"
  /\ Posted
  /\ trace[Len(trace)] = "reactions.add threw"
  /\ failed = <<"An API error occurred: already_reacted">>

\* the accent colors the cases of the switch set
Palette == {"#2DA44E", "#0D4C8C", "#8250DF", "#CF222E", "#BBDFFF"}

\* the verbs the cases of the switch set
Verbs ==
  {"opened this pull request.", "reopened this pull request.",
   "merged this pull request.", "closed this pull request.",
   "reviewed this pull request.", "approved this pull request.",
   "requested changes on this pull request.",
   "updated a review comment on this pull request.",
   "dismissed the review changes on this pull request.",
   "commented on this pull request.", "updated a comment on this pull request."}

\* a message content free of the defaults of the builder
NoDefaults(c) ==
  /\ c.attachments[1].color \in Palette
  /\ c.blocks[1].part = "header"
  /\ c.blocks[1].text = HeaderText(locals.value)
  /\ c.attachments[1].text =
       generateUser(event.sender, input.userMapping) \o " " \o locals.value.message

\* C16: for every event the classifier accepts the builder determines a status,
\* a number, an accent color and a verb: the message built, and every message
\* sent, has a color of the palette (never gray #DDDDDD, never undefined), a
\* header made of a number and a status that are defined, and the verb of its
\* case, never "do nothing"
C16_NoDefaultBranch ==
  /\ content.some =>
       /\ Accepted(event)
       /\ locals.some
       /\ locals.value.eventStatus.some
       /\ locals.value.pullRequestNumber.some
       /\ locals.value.color \in Palette
       /\ locals.value.message \in Verbs
       /\ content.value.attachments[1].color = locals.value.color
       /\ pc = "post" => NoDefaults(content.value)
  /\ \A i \in PostCalls : content.some /\ calls[i].content = content.value

\* a delivered message for a review that requested changes: red, with its verb
C16_Witness ==
  /\ pc = "done"
  /\ PostCalls # {}
  /\ event.eventName = "pull_request_review"
  /\ event.action = "submitted"
  /\ event.state = "changes_requested"
  /\ content.value.attachments[1].color = "#CF222E"
  /\ locals.value.message = "requested changes on this pull request."

====
